---- MODULE Spec2Model ----
(***************************************************************************)
(* A model of the faktory server runtime (server/server.go): the per-      *)
(* connection session (AHOY handshake, command loop), the command handlers *)
(* PUSH, POP, ACK, FAIL, BEAT, INFO, STORE, END, the heartbeat registry    *)
(* and its reaper.  Lines are strings, cut up the way the Go code cuts     *)
(* them up (slices, prefix tests, Index, Split, TrimSuffix).               *)
(***************************************************************************)
EXTENDS Integers, Sequences, FiniteSets, TLC

(***************************************************************************)
(* Bounds of the model.                                                    *)
(***************************************************************************)
MaxQueue == 2       \* jobs one queue may hold
MaxSched == 1       \* entries the Scheduled set may hold
MaxTime == 30       \* last instant of the clock, in seconds
MaxPops == 2        \* POP commands that may return a job
MaxFails == 1       \* FAIL commands that may succeed

Sessions == {"c1", "c2"}
Wids == {"w1", "w2"}
Jids == {"j1", "j2"}
QueueNames == {"default", "q1"}
ClockSteps == {30}

(***************************************************************************)
(* Program constants.                                                      *)
(***************************************************************************)
HeartbeatTTL == 60          \* reapHeartbeats: -1 * time.Minute
HandshakeSkip == 5          \* processConnection: line[5:]
PushSkip == 5               \* push: cmd[5:]
AckSkip == 4                \* ack: cmd[4:]
BeatSkip == 5               \* heartbeat: cmd[5:]
FailSkip == 5               \* fail: the payload follows "FAIL "
ReservationTTL == 1800      \* reservation time to live, in seconds
DefaultRetry == 25          \* retry budget of a job that names none

(***************************************************************************)
(* Go string primitives.                                                   *)
(***************************************************************************)
CharAt(str, i) == SubSeq(str, i, i)

\* strings.HasPrefix
HasPrefix(str, p) == Len(str) >= Len(p) /\ SubSeq(str, 1, Len(p)) = p

\* strings.HasSuffix
HasSuffix(str, p) ==
    Len(str) >= Len(p) /\ SubSeq(str, Len(str) - Len(p) + 1, Len(str)) = p

\* strings.TrimSuffix
TrimSuffix(str, p) ==
    IF HasSuffix(str, p) THEN SubSeq(str, 1, Len(str) - Len(p)) ELSE str

\* str[n:] panics when n > len(str)
SlicePanics(str, n) == n > Len(str)

\* str[n:]
SliceFrom(str, n) == SubSeq(str, n + 1, Len(str))

\* strings.Index(str, c) for a one-byte c: 0-based, -1 when absent
RECURSIVE IndexFrom(_, _, _)
IndexFrom(str, c, i) ==
    IF i > Len(str) THEN -1
    ELSE IF CharAt(str, i) = c THEN i - 1
    ELSE IndexFrom(str, c, i + 1)

Index(str, c) == IndexFrom(str, c, 1)

\* strings.Split(str, sep) for a one-byte sep
RECURSIVE Split(_, _)
Split(str, sep) ==
    LET idx == Index(str, sep)
    IN  IF idx < 0 THEN <<str>>
        ELSE <<SubSeq(str, 1, idx)>> \o Split(SliceFrom(str, idx + 1), sep)

\* strings.ToLower, on the sub-commands the clients of the model send
ToLower(str) ==
    CASE str = "STATS" -> "stats"
      [] str = "BACKUP" -> "backup"
      [] OTHER -> str

IsSpace(ch) == ch \in {" ", "\n", "\r", "\t"}

RECURSIVE TrimLeft(_)
TrimLeft(str) ==
    IF Len(str) > 0 /\ IsSpace(CharAt(str, 1))
    THEN TrimLeft(SliceFrom(str, 1)) ELSE str

RECURSIVE TrimRight(_)
TrimRight(str) ==
    IF Len(str) > 0 /\ IsSpace(CharAt(str, Len(str)))
    THEN TrimRight(SubSeq(str, 1, Len(str) - 1)) ELSE str

\* the JSON decoder skips the white space around the top-level value
TrimSpace(str) == TrimRight(TrimLeft(str))

(***************************************************************************)
(* Time: instants are seconds after 2024-01-01T00:00:00Z.                  *)
(***************************************************************************)
Digit(d) == CharAt("0123456789", d + 1)

TwoDigits(n) == Digit(n \div 10) \o Digit(n % 10)

\* the RFC 3339 text of an instant
timeText(t) ==
    "2024-01-01T00:" \o TwoDigits(t \div 60) \o ":" \o TwoDigits(t % 60) \o "Z"

Instants == 0..(MaxTime + 120)

TimeTexts == [t \in Instants |-> timeText(t)]

\* util.Nows and the formatting of any instant the server writes
FormatTime(t) == TimeTexts[t]

\* util.ParseTime
ParseTime(str) ==
    IF \E t \in Instants : TimeTexts[t] = str
    THEN [ok |-> TRUE, t |-> CHOOSE t \in Instants : TimeTexts[t] = str]
    ELSE [ok |-> FALSE, t |-> 0]

(***************************************************************************)
(* The JSON documents the clients send and their decoding into the Go      *)
(* structs (json.Unmarshal): a text that is none of these is an error.     *)
(***************************************************************************)
Str(v) == "\"" \o v \o "\""

Passwords == {"p", "x"}

Hostnames == {"h2"}

ClientWorkerDocs ==
    {[text |-> "{\"wid\":" \o Str(w) \o "}",
      val |-> [Wid |-> w, Password |-> "", Hostname |-> ""]] : w \in Wids \cup {""}}
    \cup
    {[text |-> "{\"wid\":" \o Str(w) \o ",\"password\":" \o Str(p) \o "}",
      val |-> [Wid |-> w, Password |-> p, Hostname |-> ""]] : w \in Wids, p \in Passwords}
    \cup
    {[text |-> "{\"password\":" \o Str(p) \o "}",
      val |-> [Wid |-> "", Password |-> p, Hostname |-> ""]] : p \in Passwords}
    \cup
    {[text |-> "{\"wid\":" \o Str(w) \o ",\"hostname\":" \o Str(h) \o "}",
      val |-> [Wid |-> w, Password |-> "", Hostname |-> h]] :
        w \in {"w1"}, h \in Hostnames}
    \cup
    {[text |-> "{}", val |-> [Wid |-> "", Password |-> "", Hostname |-> ""]]}

decodeClientWorker(data) ==
    LET txt == TrimSpace(data)
    IN  IF \E d \in ClientWorkerDocs : d.text = txt
        THEN [ok |-> TRUE,
              val |-> (CHOOSE d \in ClientWorkerDocs : d.text = txt).val]
        ELSE [ok |-> FALSE, val |-> [Wid |-> "", Password |-> "", Hostname |-> ""]]

AtTexts == {timeText(0), timeText(30), "tomorrow"}

\* faktory.Job
JobOf(j, q, at, retry) ==
    [Jid |-> j, Queue |-> q, At |-> at, CreatedAt |-> "", EnqueuedAt |-> "",
     Retry |-> retry, RetryCount |-> 0]

NoJob == JobOf("", "", "", 0)

JobDocs ==
    {[text |-> "{\"jid\":" \o Str(j) \o "}",
      val |-> JobOf(j, "", "", DefaultRetry)] : j \in Jids}
    \cup
    {[text |-> "{\"jid\":" \o Str(j) \o ",\"queue\":" \o Str(q) \o "}",
      val |-> JobOf(j, q, "", DefaultRetry)] : j \in Jids, q \in QueueNames}
    \cup
    {[text |-> "{\"jid\":" \o Str(j) \o ",\"at\":" \o Str(at) \o "}",
      val |-> JobOf(j, "", at, DefaultRetry)] : j \in Jids, at \in AtTexts}
    \cup
    {[text |-> "{\"jid\":" \o Str(j) \o ",\"queue\":\"q1\",\"at\":"
                 \o Str(at) \o "}",
      val |-> JobOf(j, "q1", at, DefaultRetry)] : j \in Jids, at \in AtTexts}
    \cup
    {[text |-> "{\"jid\":" \o Str(j) \o ",\"retry\":0}",
      val |-> JobOf(j, "", "", 0)] : j \in Jids}

decodeJob(data) ==
    LET txt == TrimSpace(data)
    IN  IF \E d \in JobDocs : d.text = txt
        THEN [ok |-> TRUE, val |-> (CHOOSE d \in JobDocs : d.text = txt).val]
        ELSE [ok |-> FALSE, val |-> NoJob]

\* the FAIL payloads: {"jid":"..."}, the error details left out
decodeFail(data) ==
    LET txt == TrimSpace(data)
    IN  IF \E j \in Jids : txt = "{\"jid\":" \o Str(j) \o "}"
        THEN [ok |-> TRUE,
              jid |-> CHOOSE j \in Jids : txt = "{\"jid\":" \o Str(j) \o "}"]
        ELSE [ok |-> FALSE, jid |-> ""]

(***************************************************************************)
(* What the clients send.                                                  *)
(***************************************************************************)
AhoyLines ==
    {"AHOY " \o d.text \o "\n" : d \in ClientWorkerDocs}
    \cup {"AHOY {\"wid\":\"w1\"}\r\n", "AHOY {\"wid\":\n", "AHOY\n",
          "AHOY{\"wid\":\"w1\"}\n", "HELLO {\"wid\":\"w1\"}\n",
          "PUSH {\"jid\":\"j1\"}\n"}

PushLines ==
    {"PUSH " \o d.text : d \in JobDocs}
    \cup {"PUSH", "PUSH ", "PUSH {\"jid\":", "PUSH j1"}

PopLines == {"POP", "POP default", "POP q1", "POP q1 default"}

AckLines == {"ACK " \o j : j \in Jids} \cup {"ACK", "ACK "}
            \cup {"ACK {\"jid\":" \o Str(j) \o "}" : j \in Jids}

FailLines == {"FAIL {\"jid\":" \o Str(j) \o "}" : j \in Jids}
             \cup {"FAIL {\"jid\":"}

BeatLines ==
    {"BEAT {\"wid\":" \o Str(w) \o "}" : w \in Wids}
    \cup {"BEAT", "BEAT w1", "BEAT {\"wid\":"}

OtherLines ==
    {"INFO", "STORE stats", "STORE STATS", "STORE backup", "STORE vacuum",
     "STORE", "END", "FLUSH", "FLUSH all", "push {\"jid\":\"j1\"}", ""}

CommandLines ==
    PushLines \cup PopLines \cup AckLines \cup FailLines \cup BeatLines
    \cup OtherLines

\* every line ends in "\n"; some clients send "\r\n"
RawLines == {b \o "\n" : b \in CommandLines}
            \cup {b \o "\r\n" : b \in CommandLines}

(***************************************************************************)
(* processLines, lines 358-366: the line without its terminator, and the   *)
(* verb, which is what stands before the first space.                      *)
(***************************************************************************)
trimLine(raw) == TrimSuffix(TrimSuffix(raw, "\r\n"), "\n")

verbOf(cmd) ==
    LET idx == Index(cmd, " ")
    IN  IF idx >= 0 THEN SubSeq(cmd, 1, idx) ELSE cmd

(***************************************************************************)
(* The cuts and decodings of the lines above, computed once.               *)
(***************************************************************************)
Trimmed == [raw \in RawLines |-> trimLine(raw)]

Verbs == [cmd \in CommandLines |-> verbOf(cmd)]

Fields == [cmd \in CommandLines |-> Split(cmd, " ")]

Payloads(skip) ==
    {SliceFrom(cmd, skip) : cmd \in {x \in CommandLines : ~SlicePanics(x, skip)}}

JobTable == [data \in Payloads(PushSkip) |-> decodeJob(data)]

WorkerTable ==
    [data \in Payloads(BeatSkip)
              \cup {SliceFrom(l, HandshakeSkip) :
                      l \in {x \in AhoyLines : ~SlicePanics(x, HandshakeSkip)}}
       |-> decodeClientWorker(data)]

FailTable == [data \in Payloads(FailSkip) |-> decodeFail(data)]

\* json.Unmarshal(buf, &job)
UnmarshalJob(data) == JobTable[data]

\* json.Unmarshal(data, &client), json.Unmarshal(data, &worker)
UnmarshalClientWorker(data) == WorkerTable[data]

UnmarshalFail(data) == FailTable[data]

(***************************************************************************)
(* State.                                                                  *)
(***************************************************************************)
VARIABLES
    Password,     \* Options.Password
    now,          \* time.Now()
    state,        \* state[c]: where the session of connection c stands
    client,       \* client[c]: Connection.client of the session
    heartbeats,   \* Server.heartbeats, by wid; NoWorker when absent
    queues,       \* the store's queues, by name
    scheduled,    \* store.Scheduled()
    working,      \* store.Working(): the reservations
    retries,      \* store.Retries()
    dead,         \* store.Dead()
    Processed,    \* Server.Processed
    Failures,     \* Server.Failures
    crashed,      \* a goroutine panicked: the process is gone
    out,          \* what the last session step wrote to its socket
    last,         \* the last session step: who, what, with which inputs
    popped,       \* number of POP commands that returned a job
    listener,     \* Server.listener: "open", or "closed" by Stop
    main,         \* where the goroutine of Start stands
    scheduler,    \* Server.scheduler: "running" or "stopped"
    storage,      \* the store opened by Start: "open" or "closed"
    mu,           \* Server.mu: the goroutine that holds it, or "none"
    inRegistry    \* the goroutines that are reading or writing heartbeats

vars == <<Password, now, state, client, heartbeats, queues, scheduled,
          working, retries, dead, Processed, Failures, crashed, out, last,
          popped, listener, main, scheduler, storage, mu, inRegistry>>

runVars == <<listener, main, scheduler, storage, mu>>

storeVars == <<queues, scheduled, working, retries, dead>>

\* ClientWorker
WorkerOf(wid, pwd, host, started, beat, sig) ==
    [Wid |-> wid, Password |-> pwd, Hostname |-> host, StartedAt |-> started,
     lastHeartbeat |-> beat, signal |-> sig]

NoWorker == WorkerOf("", "", "", -1, -1, "")

NoClient == [Wid |-> "", Password |-> "", Hostname |-> ""]

\* the wire responses of Connection.Ok, Connection.Error, Connection.Result
RespOk == [t |-> "+OK", body |-> "", job |-> NoJob]
RespErr(msg) == [t |-> "-ERR", body |-> msg, job |-> NoJob]
RespBulk(data) == [t |-> "$", body |-> data, job |-> NoJob]
RespJob(job) == [t |-> "$", body |-> "job", job |-> job]
RespNull == [t |-> "$-1", body |-> "", job |-> NoJob]

\* the keys the heartbeats map may hold: any wid a client record can carry
Keys == Wids \cup {""}

Registered(w) == heartbeats[w] # NoWorker

NoStep == [seq |-> 0, sess |-> "c1", op |-> "none", line |-> "",
           readErr |-> FALSE, writeErr |-> FALSE, serr |-> "none"]

Init ==
    /\ Password \in {"", "p"}
    /\ now = 0
    /\ state = [c \in Sessions |-> "IDLE"]
    /\ client = [c \in Sessions |-> NoClient]
    /\ heartbeats = [w \in Keys |-> NoWorker]
    /\ queues = [q \in QueueNames |-> <<>>]
    /\ scheduled = {}
    /\ working = {}
    /\ retries = {}
    /\ dead = {}
    /\ Processed = 0
    /\ Failures = 0
    /\ crashed = FALSE
    /\ out = <<>>
    /\ last = NoStep
    /\ popped = 0
    /\ listener = "open"
    /\ main = "accepting"
    /\ scheduler = "running"
    /\ storage = "open"
    /\ mu = "none"
    /\ inRegistry = {}

Step(c, op, line, readErr, writeErr, serr) ==
    [seq |-> 1 - last.seq, sess |-> c, op |-> op, line |-> line,
     readErr |-> readErr, writeErr |-> writeErr, serr |-> serr]

(***************************************************************************)
(* The clock.                                                              *)
(***************************************************************************)
Tick(d) ==
    /\ ~crashed
    /\ now + d <= MaxTime
    /\ now' = now + d
    /\ UNCHANGED <<Password, state, client, heartbeats, storeVars, Processed,
                   Failures, crashed, out, last, popped, runVars, inRegistry>>

(***************************************************************************)
(* Server.Start: the accept loop hands a new connection to a session.      *)
(***************************************************************************)
Accept(c) ==
    /\ ~crashed
    /\ main = "accepting"
    /\ listener = "open"
    /\ state[c] \in {"IDLE", "CLOSED"}
    /\ state' = [state EXCEPT ![c] = "AWAIT_HANDSHAKE"]
    /\ client' = [client EXCEPT ![c] = NoClient]
    /\ out' = <<>>
    /\ last' = Step(c, "accept", "", FALSE, FALSE, "none")
    /\ UNCHANGED <<Password, now, heartbeats, storeVars, Processed, Failures,
                   crashed, popped, runVars, inRegistry>>

(***************************************************************************)
(* processConnection: the AHOY handshake.                                  *)
(***************************************************************************)
\* line 147
validPreamble(line) == HasPrefix(line, "AHOY {")

\* a handshake that never looks at the password
passwordOK_skipped(cl) == TRUE

\* line 164
passwordOK(cl) == ~(Password # "" /\ cl.Password # Password)

\* a handshake that lets the empty wid through
widOK_any(cl) == TRUE

\* line 173
widOK(cl) == cl.Wid # ""

\* a handshake that keeps the password as the client sent it
scrub_kept(cl) == cl

\* line 170: client.Password = "<secret>"
scrub(cl) == [cl EXCEPT !.Password = "<secret>"]

\* lines 140-177: how the handshake on `line` ends, and the client record
handshake(line, readErr) ==
    IF readErr THEN [res |-> "read_error", client |-> NoClient]
    ELSE IF ~validPreamble(line)
    THEN [res |-> "bad_preamble", client |-> NoClient]
    ELSE LET dec == UnmarshalClientWorker(SliceFrom(line, HandshakeSkip))
         IN  IF ~dec.ok THEN [res |-> "bad_json", client |-> NoClient]
             ELSE IF ~passwordOK(dec.val)
             THEN [res |-> "bad_password", client |-> NoClient]
             ELSE LET cl == scrub(dec.val)
                  IN  IF ~widOK(cl)
                      THEN [res |-> "bad_wid", client |-> cl]
                      ELSE [res |-> "ok", client |-> cl]

\* a handshake that registers the client record whatever is registered
register_anew(cl) ==
    [heartbeats EXCEPT ![cl.Wid] =
        WorkerOf(cl.Wid, cl.Password, cl.Hostname, now, now, "")]

\* lines 179-186: refresh the entry of a known wid, or register the client
register(cl) ==
    IF Registered(cl.Wid)
    THEN [heartbeats EXCEPT ![cl.Wid].lastHeartbeat = now]
    ELSE [heartbeats EXCEPT ![cl.Wid] =
            WorkerOf(cl.Wid, cl.Password, cl.Hostname, now, now, "")]

processConnection(c, line, readErr, writeErr) ==
    /\ ~crashed
    /\ state[c] = "AWAIT_HANDSHAKE"
    /\ LET h == handshake(line, readErr)
       IN  IF h.res # "ok"
           THEN /\ state' = [state EXCEPT ![c] = "CLOSED"]
                /\ out' = <<>>
                /\ UNCHANGED <<heartbeats, client>>
           ELSE /\ heartbeats' = register(h.client)
                /\ IF writeErr
                   THEN /\ state' = [state EXCEPT ![c] = "CLOSED"]
                        /\ out' = <<>>
                        /\ UNCHANGED client
                   ELSE /\ state' = [state EXCEPT ![c] = "READY"]
                        /\ out' = <<RespOk>>
                        /\ client' = [client EXCEPT ![c] = h.client]
    /\ last' = Step(c, "handshake", line, readErr, writeErr, "none")
    /\ inRegistry' = inRegistry \ {c}
    /\ UNCHANGED <<Password, now, storeVars, Processed, Failures, crashed,
                   popped, runVars>>

(***************************************************************************)
(* reapHeartbeats: drop the registrations that are over a minute old.      *)
(***************************************************************************)
\* a reaper that takes a worker silent for just a minute for dead
stale_atTTL(w) ==
    Registered(w) /\ heartbeats[w].lastHeartbeat <= now - HeartbeatTTL

\* line 418: worker.lastHeartbeat.Before(time.Now().Add(-1 * time.Minute))
stale(w) == Registered(w) /\ heartbeats[w].lastHeartbeat < now - HeartbeatTTL

reapHeartbeats ==
    /\ ~crashed
    /\ heartbeats' = [w \in Keys |-> IF stale(w) THEN NoWorker
                                      ELSE heartbeats[w]]
    /\ inRegistry' = inRegistry \ {"reaper"}
    /\ UNCHANGED <<Password, now, state, client, storeVars, Processed,
                   Failures, crashed, out, last, popped, runVars>>

(***************************************************************************)
(* The store and the job lifecycle behind the handlers.                    *)
(***************************************************************************)
\* Queue.Push
QueuePush(qs, name, job) == [qs EXCEPT ![name] = Append(@, job)]

\* TimedSet.AddElement: one entry per key (timestamp, jid)
AddElement(set, ts, jid, job) ==
    {e \in set : ~(e.ts = ts /\ e.jid = jid)}
    \cup {[ts |-> ts, jid |-> jid, job |-> job]}

\* Server.Reserve: the reservation of `job` by worker `wid`
Reserve(wid, job) ==
    [jid |-> job.Jid, wid |-> wid, expiry |-> now + ReservationTTL,
     job |-> job]

\* the first of the named queues that holds a job, "" when none does
RECURSIVE FirstNonEmpty(_)
FirstNonEmpty(names) ==
    IF names = <<>> THEN ""
    ELSE IF Head(names) \in QueueNames /\ queues[Head(names)] # <<>>
         THEN Head(names)
         ELSE FirstNonEmpty(Tail(names))

\* Server.Pop(reserve, queues...): the head of the first queue that holds a
\* job leaves its queue and is reserved for `wid`
ServerPop(wid, names, serr) ==
    LET q == FirstNonEmpty(names)
    IN  IF q = ""
        THEN [err |-> FALSE, job |-> NoJob, queues |-> queues,
              working |-> working]
        ELSE IF serr = "Pop"
        THEN [err |-> TRUE, job |-> NoJob, queues |-> queues,
              working |-> working]
        ELSE [err |-> FALSE, job |-> Head(queues[q]),
              queues |-> [queues EXCEPT ![q] = Tail(@)],
              working |-> working \cup {Reserve(wid, Head(queues[q]))}]

\* Server.Acknowledge(jid): the reservation of jid leaves Working
Acknowledge(jid, serr) ==
    IF serr = "Acknowledge" /\ \E r \in working : r.jid = jid
    THEN [err |-> TRUE, working |-> working]
    ELSE [err |-> FALSE, working |-> {r \in working : r.jid # jid}]

(***************************************************************************)
(* The command handlers.  Each sets out' and the server state; the command *)
(* loop sets the rest.                                                     *)
(***************************************************************************)
\* an index or slice out of range: the goroutine panics, nothing recovers
Panic ==
    /\ crashed' = TRUE
    /\ out' = <<>>
    /\ UNCHANGED <<heartbeats, storeVars, Processed, Failures, popped>>

\* Connection.Error(cmd, err)
ReplyError(msg) ==
    /\ out' = <<RespErr(msg)>>
    /\ UNCHANGED <<heartbeats, storeVars, Processed, Failures, crashed,
                   popped>>

\* end
end(c, cmd) ==
    /\ out' = <<>>
    /\ UNCHANGED <<heartbeats, storeVars, Processed, Failures, crashed,
                   popped>>

\* parseJob
parseJob(buf) ==
    LET dec == UnmarshalJob(buf)
        j1 == IF dec.val.CreatedAt = ""
              THEN [dec.val EXCEPT !.CreatedAt = FormatTime(now)]
              ELSE dec.val
        j2 == IF j1.Queue = "" THEN [j1 EXCEPT !.Queue = "default"] ELSE j1
    IN  IF ~dec.ok THEN [ok |-> FALSE, job |-> NoJob]
        ELSE [ok |-> TRUE, job |-> j2]

\* a push that takes any text for a timestamp
atInvalid_never(job) == FALSE

\* push, lines 233-238: job.at is there and does not parse
atInvalid(job) == job.At # "" /\ ~ParseTime(job.At).ok

\* a push that schedules the job whose time has come
scheduleLater_orNow(job) == job.At # "" /\ ParseTime(job.At).t >= now

\* push, lines 233-240: job.at is there and lies in the future
scheduleLater(job) == job.At # "" /\ ParseTime(job.At).t > now

push(c, cmd, serr) ==
    IF SlicePanics(cmd, PushSkip) THEN Panic
    ELSE LET pj == parseJob(SliceFrom(cmd, PushSkip))
             job == pj.job
         IN  IF ~pj.ok THEN ReplyError("invalid character in job")
             ELSE IF atInvalid(job)
             THEN ReplyError("Invalid timestamp for job.at: " \o job.At)
             ELSE IF scheduleLater(job)
             THEN IF serr = "AddElement" THEN ReplyError("storage: AddElement")
                  ELSE /\ scheduled' = AddElement(scheduled, job.At, job.Jid,
                                                  job)
                       /\ Cardinality(scheduled') <= MaxSched
                       /\ out' = <<RespOk>>
                       /\ UNCHANGED <<heartbeats, queues, working, retries,
                                      dead, Processed, Failures, crashed,
                                      popped>>
             ELSE IF serr = "GetQueue" THEN ReplyError("storage: GetQueue")
             ELSE IF serr = "Push" THEN ReplyError("storage: Push")
             ELSE /\ Len(queues[job.Queue]) < MaxQueue
                  /\ queues' = QueuePush(queues, job.Queue,
                        [job EXCEPT !.EnqueuedAt = FormatTime(now)])
                  /\ out' = <<RespOk>>
                  /\ UNCHANGED <<heartbeats, scheduled, working, retries,
                                 dead, Processed, Failures, crashed, popped>>

\* a pop that reserves for no worker
popWid_none(c) == ""

\* pop, line 283: the worker the reservation is made for
popWid(c) == client[c].Wid

\* pop, lines 285-299: the response to a POP
popReply(r) ==
    IF r.err THEN <<RespErr("storage: Pop")>>
    ELSE IF r.job # NoJob THEN <<RespJob(r.job)>>
    ELSE <<RespNull>>

\* a pop that counts the null reply too
popCount_always(r) == IF ~r.err THEN Processed + 1 ELSE Processed

\* pop, lines 289-295: atomic.AddInt64(&s.Processed, 1)
popCount(r) ==
    IF ~r.err /\ r.job # NoJob THEN Processed + 1 ELSE Processed

ReturnsJob(o) == Len(o) = 1 /\ o[1].t = "$" /\ o[1].job # NoJob

pop(c, cmd, serr) ==
    LET names == Tail(Fields[cmd])
        r == ServerPop(popWid(c), names, serr)
    IN  /\ queues' = r.queues
        /\ working' = r.working
        /\ out' = popReply(r)
        /\ Processed' = popCount(r)
        /\ popped' = IF ReturnsJob(out') THEN popped + 1 ELSE popped
        /\ popped' <= MaxPops
        /\ UNCHANGED <<heartbeats, scheduled, retries, dead, Failures,
                       crashed>>

\* ack, line 303: the jid is what follows "ACK "
ackJid(cmd) == SliceFrom(cmd, AckSkip)

\* an ack that takes "nothing was reserved" for a failure
ackReply_strict(r) ==
    IF r.err \/ r.working = working
    THEN <<RespErr("No such reservation")>> ELSE <<RespOk>>

\* ack, lines 305-310: the response to an ACK
ackReply(r) ==
    IF r.err THEN <<RespErr("storage: Acknowledge")>> ELSE <<RespOk>>

ack(c, cmd, serr) ==
    IF SlicePanics(cmd, AckSkip) THEN Panic
    ELSE LET r == Acknowledge(ackJid(cmd), serr)
         IN  /\ working' = r.working
             /\ out' = ackReply(r)
             /\ UNCHANGED <<heartbeats, queues, scheduled, retries, dead,
                            Processed, Failures, crashed, popped>>

\* the retry delay: 15 + retry_count^4 + rand(0..30) seconds
Backoff(count, rnd) == 15 + count * count * count * count + rnd

\* fail: the reservation goes to Retries, or to Dead when the budget is spent
fail(c, cmd, rnd) ==
    IF ~HasPrefix(cmd, "FAIL {") THEN ReplyError("Invalid format " \o cmd)
    ELSE LET dec == UnmarshalFail(SliceFrom(cmd, FailSkip))
             held == {r \in working : r.jid = dec.jid}
             job == (CHOOSE r \in held : TRUE).job
             again == [job EXCEPT !.RetryCount = @ + 1]
         IN  IF ~dec.ok THEN ReplyError("invalid character in failure")
             ELSE IF held = {} THEN ReplyError("Job not found " \o dec.jid)
             ELSE /\ working' = working \ held
                  /\ IF job.RetryCount < job.Retry
                     THEN /\ retries' = AddElement(retries,
                               FormatTime(now + Backoff(again.RetryCount, rnd)),
                               job.Jid, again)
                          /\ dead' = dead
                     ELSE /\ dead' = AddElement(dead, FormatTime(now),
                                                job.Jid, job)
                          /\ retries' = retries
                  /\ Failures' = Failures + 1
                  /\ Failures' <= MaxFails
                  /\ out' = <<RespOk>>
                  /\ UNCHANGED <<heartbeats, queues, scheduled, Processed,
                                 crashed, popped>>

\* a heartbeat that never passes the signal on
beatReply_quiet(entry) == <<RespOk>>

\* heartbeat, lines 404-408: +OK, or the pending signal of the worker
beatReply(entry) ==
    IF entry.signal = "" THEN <<RespOk>>
    ELSE <<RespBulk("{\"signal\":\"" \o entry.signal \o "\"}")>>

\* heartbeat
heartbeat(c, cmd) ==
    IF ~HasPrefix(cmd, "BEAT {") THEN ReplyError("Invalid format " \o cmd)
    ELSE LET data == SliceFrom(cmd, BeatSkip)
             dec == UnmarshalClientWorker(data)
             wid == dec.val.Wid
         IN  IF ~dec.ok THEN ReplyError("Invalid format " \o data)
             ELSE IF ~Registered(wid)
             THEN ReplyError("Unknown client %!d(string=" \o wid \o ")")
             ELSE /\ heartbeats' = [heartbeats EXCEPT
                                       ![wid].lastHeartbeat = now]
                  /\ out' = beatReply(heartbeats[wid])
                  /\ UNCHANGED <<storeVars, Processed, Failures, crashed,
                                 popped>>

\* strconv of the small numbers INFO reports
Itoa(n) == IF n < 10 THEN Digit(n) ELSE TwoDigits(n)

\* info
info(c, cmd, serr) ==
    IF serr = "GetQueue" THEN ReplyError("storage: GetQueue")
    ELSE /\ out' = <<RespBulk(
                "{\"default\":" \o Itoa(Len(queues["default"]))
                \o ",\"failures\":" \o Itoa(Failures)
                \o ",\"processed\":" \o Itoa(Processed)
                \o ",\"retries\":" \o Itoa(Cardinality(retries))
                \o ",\"scheduled\":" \o Itoa(Cardinality(scheduled))
                \o ",\"working\":" \o Itoa(Cardinality(working)) \o "}")>>
         /\ UNCHANGED <<heartbeats, storeVars, Processed, Failures, crashed,
                        popped>>

\* store
store(c, cmd) ==
    LET parts == Fields[cmd]
    IN  IF Len(parts) < 2 THEN Panic
        ELSE LET subcmd == ToLower(parts[2])
             IN  IF subcmd = "stats"
                 THEN /\ out' = <<RespBulk("rocksdb.stats")>>
                      /\ UNCHANGED <<heartbeats, storeVars, Processed,
                                     Failures, crashed, popped>>
                 ELSE IF subcmd = "backup"
                 THEN /\ out' = <<>>
                      /\ UNCHANGED <<heartbeats, storeVars, Processed,
                                     Failures, crashed, popped>>
                 ELSE ReplyError("Unknown STORE command: " \o subcmd)

(***************************************************************************)
(* processLines: the command loop of a session.                            *)
(***************************************************************************)
cmdSet == {"END", "PUSH", "POP", "ACK", "FAIL", "BEAT", "INFO", "STORE"}

processLines(c, raw, serr, rnd) ==
    /\ ~crashed
    /\ state[c] = "READY"
    /\ LET cmd == Trimmed[raw]
           verb == Verbs[cmd]
       IN  /\ IF verb \notin cmdSet
              THEN ReplyError("Unknown command " \o verb)
              ELSE CASE verb = "END" -> end(c, cmd)
                     [] verb = "PUSH" -> push(c, cmd, serr)
                     [] verb = "POP" -> pop(c, cmd, serr)
                     [] verb = "ACK" -> ack(c, cmd, serr)
                     [] verb = "FAIL" -> fail(c, cmd, rnd)
                     [] verb = "BEAT" -> heartbeat(c, cmd)
                     [] verb = "INFO" -> info(c, cmd, serr)
                     [] verb = "STORE" -> store(c, cmd)
           /\ state' = IF verb = "END" THEN [state EXCEPT ![c] = "CLOSED"]
                       ELSE state
           /\ last' = Step(c, "command", cmd, FALSE, FALSE, serr)
    /\ inRegistry' = inRegistry \ {c}
    /\ UNCHANGED <<Password, now, client, runVars>>

\* processLines, lines 350-357: the read fails (peer closed, socket error)
readFailed(c) ==
    /\ ~crashed
    /\ state[c] = "READY"
    /\ state' = [state EXCEPT ![c] = "CLOSED"]
    /\ out' = <<>>
    /\ last' = Step(c, "eof", "", TRUE, FALSE, "none")
    /\ UNCHANGED <<Password, now, client, heartbeats, storeVars, Processed,
                   Failures, crashed, popped, runVars, inRegistry>>

(***************************************************************************)
(* The specifications.  Each draws the lines its clients send from a set   *)
(* of its own.                                                             *)
(***************************************************************************)
In(line, readErr, writeErr) ==
    [line |-> line, readErr |-> readErr, writeErr |-> writeErr]

Cmd(body, term, serr) == [raw |-> body \o term, serr |-> serr, rnd |-> 0]

\* the handshake of a well-behaved worker: connection c1 is w1's, c2 is w2's
GoodAhoy(c) ==
    IF c = "c1" THEN {In("AHOY {\"wid\":\"w1\"}\n", FALSE, FALSE)}
    ELSE {In("AHOY {\"wid\":\"w2\"}\n", FALSE, FALSE)}

(***************************************************************************)
(* SpecHandshake: every first line a client may send, with and without a   *)
(* server password; the sessions that get through beat, ask and leave.     *)
(***************************************************************************)
HandshakeInputs ==
    {In(l, FALSE, FALSE) : l \in AhoyLines}
    \cup {In("", TRUE, FALSE), In("AHOY {\"wid\":\"w1\"", TRUE, FALSE),
          In("AHOY {\"wid\":\"w1\"}\n", FALSE, TRUE)}

HandshakeCmds ==
    {Cmd(b, "\n", "none") : b \in {"BEAT {\"wid\":\"w1\"}", "INFO", "END"}}

NextHandshake ==
    \/ \E d \in ClockSteps : Tick(d)
    \/ \E c \in Sessions : Accept(c)
    \/ \E c \in Sessions, i \in HandshakeInputs :
          processConnection(c, i.line, i.readErr, i.writeErr)
    \/ \E c \in Sessions, i \in HandshakeCmds :
          processLines(c, i.raw, i.serr, i.rnd)
    \/ \E c \in Sessions : readFailed(c)

SpecHandshake == Init /\ [][NextHandshake]_vars

\* NewServer with no password configured (opts.Password empty)
InitOpen == Init /\ Password = ""

(***************************************************************************)
(* SpecProtocol: the whole command set, well and badly framed, sent by two *)
(* sessions of one worker.                                                 *)
(***************************************************************************)
ProtocolCmds ==
    {Cmd(b, "\n", "none") :
        b \in {"PUSH {\"jid\":\"j1\"}", "PUSH", "PUSH ", "PUSH {\"jid\":",
               "POP", "POP default", "ACK j1", "ACK", "ACK ",
               "FAIL {\"jid\":\"j1\"}", "FAIL {\"jid\":",
               "BEAT {\"wid\":\"w1\"}", "BEAT", "BEAT w1", "INFO",
               "STORE stats", "STORE STATS", "STORE backup", "STORE vacuum",
               "STORE", "END", "FLUSH", "FLUSH all",
               "push {\"jid\":\"j1\"}", ""}}
    \cup {Cmd("INFO", "\r\n", "none"), Cmd("FLUSH", "\r\n", "none"),
          Cmd("PUSH {\"jid\":\"j1\"}", "\n", "Push"),
          Cmd("POP default", "\n", "Pop"), Cmd("ACK j1", "\n", "Acknowledge"),
          Cmd("INFO", "\n", "GetQueue")}

NextProtocol ==
    \/ \E c \in Sessions : Accept(c)
    \/ \E c \in Sessions, i \in GoodAhoy("c1") :
          processConnection(c, i.line, i.readErr, i.writeErr)
    \/ \E c \in Sessions, i \in ProtocolCmds :
          processLines(c, i.raw, i.serr, i.rnd)
    \/ \E c \in Sessions : readFailed(c)

SpecProtocol == InitOpen /\ [][NextProtocol]_vars

(***************************************************************************)
(* SpecPush: one session pushes jobs with and without "at", before, at and *)
(* after the instant "at" names, against a store that may fail.            *)
(***************************************************************************)
PushBodies ==
    {"PUSH {\"jid\":\"j1\"}",
     "PUSH {\"jid\":\"j1\",\"at\":" \o Str(timeText(0)) \o "}",
     "PUSH {\"jid\":\"j1\",\"queue\":\"q1\",\"at\":" \o Str(timeText(30)) \o "}",
     "PUSH {\"jid\":\"j1\",\"at\":\"tomorrow\"}",
     "PUSH {\"jid\":", "PUSH ", "PUSH j1"}

PushCmds ==
    {Cmd(b, "\n", f) : b \in PushBodies,
                       f \in {"none", "AddElement", "GetQueue", "Push"}}
    \cup {Cmd("PUSH {\"jid\":\"j1\"}", "\r\n", "none")}

NextPush ==
    \/ \E d \in ClockSteps : Tick(d)
    \/ Accept("c1")
    \/ \E i \in GoodAhoy("c1") :
          processConnection("c1", i.line, i.readErr, i.writeErr)
    \/ \E i \in PushCmds : processLines("c1", i.raw, i.serr, i.rnd)

SpecPush == InitOpen /\ [][NextPush]_vars

(***************************************************************************)
(* Spec: two workers push, pop, acknowledge and fail jobs.                 *)
(***************************************************************************)
JobCmds ==
    {Cmd(b, "\n", "none") :
        b \in {"PUSH {\"jid\":\"j1\"}",
               "PUSH {\"jid\":\"j1\",\"queue\":\"q1\"}",
               "PUSH {\"jid\":\"j1\",\"at\":" \o Str(timeText(30)) \o "}",
               "POP", "POP default", "POP q1 default",
               "ACK j1", "ACK j2", "FAIL {\"jid\":\"j1\"}", "INFO"}}
    \cup {Cmd("POP default", "\n", "Pop"), Cmd("ACK j1", "\n", "Acknowledge")}

Next ==
    \/ \E c \in Sessions : Accept(c)
    \/ \E c \in Sessions : \E i \in GoodAhoy(c) :
          processConnection(c, i.line, i.readErr, i.writeErr)
    \/ \E c \in Sessions, i \in JobCmds :
          processLines(c, i.raw, i.serr, i.rnd)

Spec == InitOpen /\ [][Next]_vars

(***************************************************************************)
(* The handshake (C1, C2), checked under SpecHandshake.                    *)
(***************************************************************************)
\* the client record the first line carries, read as JSON after "AHOY "
AhoyClient(line) == decodeClientWorker(SliceFrom(line, 5))

WellFormedAhoy(line) ==
    /\ HasPrefix(line, "AHOY {")
    /\ AhoyClient(line).ok
    /\ AhoyClient(line).val.Wid # ""

Authenticated(line) ==
    Password = "" \/ AhoyClient(line).val.Password = Password

\* C1: a session is READY after its handshake only when the first line came
\* in time, begins with "AHOY {", parses as a ClientWorker with a non-empty
\* wid and, when the server has a password, carries that password; the
\* server has then replied +OK and the wid is in the heartbeat registry.
\* With no server password, every well-formed AHOY gets through, whatever
\* password it carries.
C1_HandshakeToReady ==
    last.op = "handshake" =>
        LET c == last.sess
            cl == AhoyClient(last.line).val
        IN  /\ state[c] = "READY" =>
                  /\ ~last.readErr
                  /\ WellFormedAhoy(last.line)
                  /\ Authenticated(last.line)
                  /\ out = <<RespOk>>
                  /\ Registered(cl.Wid)
                  /\ client[c].Wid = cl.Wid
            /\ (/\ Password = ""
                /\ ~last.readErr
                /\ ~last.writeErr
                /\ WellFormedAhoy(last.line)) => state[c] = "READY"

\* C1 witness: a server with a password, a session that sent it and is READY
C1_Witness ==
    /\ Password = "p"
    /\ last.op = "handshake"
    /\ last.line = "AHOY {\"wid\":\"w2\",\"password\":\"p\"}\n"
    /\ state[last.sess] = "READY"
    /\ out = <<RespOk>>
    /\ Registered("w2")

FailedAhoy(line, readErr) ==
    \/ readErr
    \/ ~HasPrefix(line, "AHOY {")
    \/ ~AhoyClient(line).ok
    \/ ~Authenticated(line)
    \/ AhoyClient(line).val.Wid = ""

\* C2: a handshake that fails (read error or timeout, no "AHOY {", JSON that
\* does not parse, wrong password, empty wid) takes the session from
\* AWAIT_HANDSHAKE straight to CLOSED, writes nothing to the client and
\* leaves the heartbeat registry as it was.
C2_FailedHandshakeCloses ==
    [][(/\ last'.seq # last.seq
        /\ last'.op = "handshake"
        /\ FailedAhoy(last'.line, last'.readErr))
       => /\ state[last'.sess] = "AWAIT_HANDSHAKE"
          /\ state'[last'.sess] = "CLOSED"
          /\ out' = <<>>
          /\ heartbeats' = heartbeats
          /\ client' = client]_vars

\* C2 witness: the wrong password, sent to a server that knows a worker
C2_Witness ==
    /\ Password = "p"
    /\ last.op = "handshake"
    /\ last.line = "AHOY {\"wid\":\"w2\",\"password\":\"x\"}\n"
    /\ state[last.sess] = "CLOSED"
    /\ out = <<>>
    /\ Registered("w1")
    /\ ~Registered("w2")

(***************************************************************************)
(* The command loop (C3, C4), checked under SpecProtocol.                  *)
(***************************************************************************)
\* a line whose verb is unknown, or a verb that needs an argument sent bare
BadFrame(cmd) ==
    \/ verbOf(cmd) \notin cmdSet
    \/ cmd \in {"PUSH", "ACK", "STORE", "BEAT"}

\* C3: in READY, a malformed frame or an unknown verb (a bare PUSH, ACK or
\* STORE included) is answered with one -ERR (for an unknown verb
\* "Unknown command <verb>"), the session stays READY, and neither it nor
\* the server nor another session is terminated.
C3_BadFrameAnswered ==
    (last.op = "command" /\ BadFrame(last.line)) =>
        /\ ~crashed
        /\ Len(out) = 1
        /\ out[1].t = "-ERR"
        /\ verbOf(last.line) \notin cmdSet =>
              out[1].body = "Unknown command " \o verbOf(last.line)
        /\ state[last.sess] = "READY"

\* C4: every command line processed in READY other than END is answered
\* with exactly one response before the next line is read.
C4_OneResponse ==
    (last.op = "command" /\ ~crashed /\ verbOf(last.line) # "END") =>
        Len(out) = 1

(***************************************************************************)
(* PUSH (C5, C6), checked under SpecPush.                                  *)
(***************************************************************************)
\* the job a PUSH line carries, read as JSON after "PUSH "
PushedJob(cmd) == decodeJob(SliceFrom(cmd, 5))

\* a PUSH line with a job whose "at", when there, is a timestamp
ValidPush(cmd) ==
    /\ HasPrefix(cmd, "PUSH ")
    /\ PushedJob(cmd).ok
    /\ PushedJob(cmd).val.At # "" => ParseTime(PushedJob(cmd).val.At).ok

\* "at" is there and names an instant strictly after now
InFuture(job) == job.At # "" /\ ParseTime(job.At).t > now

TargetQueue(job) == IF job.Queue = "" THEN "default" ELSE job.Queue

IsCommandStep == last'.seq # last.seq /\ last'.op = "command"

\* C5: a PUSH of a valid job, the store not failing, goes to exactly one
\* place: with "at" strictly after now, into Scheduled under the key "at"
\* and into no queue; otherwise to the end of the queue its "queue" field
\* names ("default" when it names none) and not into Scheduled.  The reply
\* is +OK either way.
C5_PushRoutes ==
    [][(IsCommandStep /\ ValidPush(last'.line) /\ last'.serr = "none") =>
        LET job == PushedJob(last'.line).val
            q == TargetQueue(job)
        IN  /\ out' = <<RespOk>>
            /\ IF InFuture(job)
               THEN /\ queues' = queues
                    /\ \E e \in scheduled' :
                          /\ e.ts = job.At
                          /\ e.jid = job.Jid
                          /\ e.job.Jid = job.Jid
                    /\ \A e \in scheduled' \ scheduled :
                          e.ts = job.At /\ e.jid = job.Jid
               ELSE /\ scheduled' = scheduled
                    /\ Len(queues'[q]) = Len(queues[q]) + 1
                    /\ SubSeq(queues'[q], 1, Len(queues[q])) = queues[q]
                    /\ queues'[q][Len(queues'[q])].Jid = job.Jid
                    /\ \A o \in QueueNames \ {q} : queues'[o] = queues[o]]_vars

\* C5 witness: a job whose "at" is now sits in its queue, not in Scheduled,
\* while a job whose "at" is later sits in Scheduled
C5_Witness ==
    /\ last.op = "command"
    /\ last.line = "PUSH {\"jid\":\"j1\",\"at\":" \o Str(timeText(0)) \o "}"
    /\ out = <<RespOk>>
    /\ now = 0
    /\ Len(queues["default"]) = 1
    /\ queues["default"][1].At = timeText(0)
    /\ \E e \in scheduled : e.ts = timeText(30)

\* a PUSH that fails: JSON that does not parse, an "at" that is no
\* timestamp, or the store call on its way (AddElement for a job scheduled
\* for later, GetQueue or Push otherwise) failing
FailingPush(cmd, serr) ==
    /\ HasPrefix(cmd, "PUSH ")
    /\ \/ ~PushedJob(cmd).ok
       \/ ~ValidPush(cmd)
       \/ ValidPush(cmd) /\ InFuture(PushedJob(cmd).val)
                         /\ serr = "AddElement"
       \/ ValidPush(cmd) /\ ~InFuture(PushedJob(cmd).val)
                         /\ serr \in {"GetQueue", "Push"}

\* C6: a PUSH that fails replies -ERR, leaves every queue and the Scheduled
\* set as they were, and leaves the session READY.
C6_FailedPushNoEffect ==
    [][(IsCommandStep /\ FailingPush(last'.line, last'.serr)) =>
        /\ Len(out') = 1
        /\ out'[1].t = "-ERR"
        /\ queues' = queues
        /\ scheduled' = scheduled
        /\ state'[last'.sess] = "READY"
        /\ ~crashed']_vars

\* C6 witness: an "at" that is no timestamp, refused while a job is queued
C6_Witness ==
    /\ last.op = "command"
    /\ last.line = "PUSH {\"jid\":\"j1\",\"at\":\"tomorrow\"}"
    /\ out = <<RespErr("Invalid timestamp for job.at: tomorrow")>>
    /\ Len(queues["default"]) = 1
    /\ scheduled # {}
    /\ state[last.sess] = "READY"

(***************************************************************************)
(* The job lifecycle (C7-C10), checked under Spec.                         *)
(***************************************************************************)
RECURSIVE CountIn(_, _)
CountIn(j, seq) ==
    IF seq = <<>> THEN 0
    ELSE (IF Head(seq).Jid = j THEN 1 ELSE 0) + CountIn(j, Tail(seq))

\* the number of places jid j is held in
Places(j) ==
    CountIn(j, queues["default"]) + CountIn(j, queues["q1"])
    + Cardinality({e \in scheduled : e.jid = j})
    + Cardinality({e \in retries : e.jid = j})
    + Cardinality({r \in working : r.jid = j})
    + Cardinality({e \in dead : e.jid = j})

\* C7: whatever PUSH, POP and ACK commands the sessions have sent, a jid is
\* in at most one place: once in one queue, or in Scheduled, Retries,
\* Working or Dead; never in two queues, twice in a queue, or in a queue
\* and in Scheduled.
C7_ExactlyOnePlace == \A j \in Jids : Places(j) <= 1

IsPopStep == IsCommandStep /\ verbOf(last'.line) = "POP"

\* C8: when a POP replies with a job, the job was the head of a queue and
\* has left it, and Working holds a reservation of its jid for the wid of
\* the popping session; a POP that replies with an error or with null
\* hands out no job and takes none from a queue.
C8_PopReserves ==
    [][IsPopStep =>
        LET c == last'.sess
        IN  /\ Len(out') = 1
            /\ IF out'[1].t = "$"
               THEN LET job == out'[1].job
                    IN  /\ job # NoJob
                        /\ \E q \in QueueNames :
                              /\ queues[q] # <<>>
                              /\ Head(queues[q]) = job
                              /\ queues' = [queues EXCEPT ![q] = Tail(@)]
                        /\ client[c].Wid \in Wids
                        /\ \E r \in working' :
                              /\ r.jid = job.Jid
                              /\ r.wid = client[c].Wid
                              /\ r.expiry > now
               ELSE /\ out'[1].t \in {"-ERR", "$-1"}
                    /\ out'[1].job = NoJob
                    /\ queues' = queues
                    /\ working' = working]_vars

\* C8 witness: the second worker has popped a job which the first had pushed
C8_Witness ==
    /\ last.op = "command"
    /\ last.sess = "c2"
    /\ last.line = "POP q1 default"
    /\ ReturnsJob(out)
    /\ out[1].job.Queue = "default"
    /\ queues["default"] = <<>>
    /\ \E r \in working : r.jid = "j1" /\ r.wid = "w2"

\* C9: the processed counter is the number of POP commands, of all
\* sessions, that returned a job: each such POP adds one, and no other
\* step (a POP that returns null or an error, any other command) changes it.
C9_ProcessedCountsPops ==
    [][/\ Processed' = popped'
       /\ (IsPopStep /\ ReturnsJob(out')) => Processed' = Processed + 1
       /\ ~(IsPopStep /\ ReturnsJob(out')) => Processed' = Processed]_vars

\* C9 witness: both workers have popped a job, and the counter stands at two
C9_Witness ==
    /\ Processed = 2
    /\ \E r \in working : r.wid = "w1"
    /\ \E r \in working : r.wid = "w2"
    /\ last.op = "command"
    /\ verbOf(last.line) = "POP"
    /\ ReturnsJob(out)

Reserved(j) == \E r \in working : r.jid = j

\* C10: ACK is idempotent: "ACK jid", the store not failing, replies +OK
\* and leaves no reservation of jid; sent for a jid that has no reservation
\* (a second ACK, a jid never reserved) it replies +OK and changes nothing.
C10_AckIdempotent ==
    [][\A j \in Jids :
        (/\ IsCommandStep
         /\ last'.line = "ACK " \o j
         /\ (last'.serr = "none" \/ ~Reserved(j))) =>
            /\ out' = <<RespOk>>
            /\ \A r \in working' : r.jid # j
            /\ ~Reserved(j) =>
                  UNCHANGED <<heartbeats, storeVars, Processed, Failures,
                              state, client, crashed>>]_vars

\* C10 witness: j1 was popped and acknowledged; the ACK that was last
\* answered +OK leaves nothing reserved
C10_Witness ==
    /\ last.op = "command"
    /\ last.line = "ACK j1"
    /\ out = <<RespOk>>
    /\ Processed = 1
    /\ working = {}
    /\ \A q \in QueueNames : queues[q] = <<>>

(***************************************************************************)
(* SpecAck: two workers push, pop and acknowledge one job, naming it in    *)
(* both argument forms of ACK.                                             *)
(***************************************************************************)
AckCmds ==
    {Cmd(b, "\n", "none") :
        b \in {"PUSH {\"jid\":\"j1\"}", "POP default", "ACK j1", "ACK j2",
               "ACK {\"jid\":\"j1\"}", "INFO"}}
    \cup {Cmd("ACK j1", "\r\n", "none"),
          Cmd("ACK {\"jid\":\"j1\"}", "\r\n", "none")}

NextAck ==
    \/ \E c \in Sessions : Accept(c)
    \/ \E c \in Sessions : \E i \in GoodAhoy(c) :
          processConnection(c, i.line, i.readErr, i.writeErr)
    \/ \E c \in Sessions, i \in AckCmds :
          processLines(c, i.raw, i.serr, i.rnd)
    \/ \E c \in Sessions : readFailed(c)

SpecAck == InitOpen /\ [][NextAck]_vars

\* the jid an "ACK {"jid":"..."}" line names, "" for any other line
JsonAckJid(cmd) ==
    IF \E j \in Jids : cmd = "ACK {\"jid\":" \o Str(j) \o "}"
    THEN CHOOSE j \in Jids : cmd = "ACK {\"jid\":" \o Str(j) \o "}"
    ELSE ""

\* C11: after an ACK in the JSON form, 'ACK {"jid":"j"}', has been
\* answered, j is not reserved in Working, just as after 'ACK j'.
C11_AckFormsAgree ==
    (/\ last.op = "command"
     /\ ~crashed
     /\ JsonAckJid(last.line) # "") => ~Reserved(JsonAckJid(last.line))

(***************************************************************************)
(* SpecBeat: two workers connect, beat, fall silent and reconnect while    *)
(* the clock runs past the heartbeat time-to-live and the reaper runs.     *)
(***************************************************************************)
MaxIdle == 90

IdleSteps == {30, 31}

Signals == {"quiet"}

\* time passes while the workers are silent
Idle(d) ==
    /\ ~crashed
    /\ now + d <= MaxIdle
    /\ now' = now + d
    /\ UNCHANGED <<Password, state, client, heartbeats, storeVars, Processed,
                   Failures, crashed, out, last, popped, runVars, inRegistry>>

\* the server marks a registered worker: it is to go quiet, or to terminate
setSignal(w, s) ==
    /\ ~crashed
    /\ Registered(w)
    /\ heartbeats[w].signal # s
    /\ heartbeats' = [heartbeats EXCEPT ![w].signal = s]
    /\ UNCHANGED <<Password, now, state, client, storeVars, Processed,
                   Failures, crashed, out, last, popped, runVars, inRegistry>>

\* c1 is w1's connection; c2 is w2's, or w1's when it reconnects from h2
BeatAhoy(c) ==
    IF c = "c1" THEN GoodAhoy(c)
    ELSE GoodAhoy(c)
         \cup {In("AHOY {\"wid\":\"w1\",\"hostname\":\"h2\"}\n", FALSE, FALSE)}

BeatCmds ==
    {Cmd(b, "\n", "none") :
        b \in {"BEAT {\"wid\":\"w1\"}", "BEAT {\"wid\":\"w2\"}", "END"}}

NextBeat ==
    \/ \E d \in IdleSteps : Idle(d)
    \/ \E c \in Sessions : Accept(c)
    \/ \E c \in Sessions : \E i \in BeatAhoy(c) :
          processConnection(c, i.line, i.readErr, i.writeErr)
    \/ \E c \in Sessions, i \in BeatCmds :
          processLines(c, i.raw, i.serr, i.rnd)
    \/ \E s \in Signals : setSignal("w1", s)
    \/ reapHeartbeats

SpecBeat == InitOpen /\ [][NextBeat]_vars

(***************************************************************************)
(* Heartbeats (C12, C13, C14, C20), checked under SpecBeat.                *)
(***************************************************************************)
\* the wid a 'BEAT {"wid":"..."}' line names, "" for any other line
BeatWid(cmd) ==
    IF \E w \in Wids : cmd = "BEAT {\"wid\":" \o Str(w) \o "}"
    THEN CHOOSE w \in Wids : cmd = "BEAT {\"wid\":" \o Str(w) \o "}"
    ELSE ""

IsBeatStep(w) == IsCommandStep /\ w # "" /\ BeatWid(last'.line) = w

\* C12: a BEAT that names the wid of the session's own AHOY is never
\* answered with an error, whenever in the session it is sent and whatever
\* other sessions and the reaper have done in between.
C12_BeatAfterAhoySucceeds ==
    (/\ last.op = "command"
     /\ BeatWid(last.line) # ""
     /\ BeatWid(last.line) = client[last.sess].Wid) =>
        (Len(out) = 1 /\ out[1].t # "-ERR")

\* C13: a BEAT for a registered wid sets the worker's last_heartbeat to now
\* and changes nothing else of the registry, the pending signal included;
\* it replies {"signal":"<s>"} when the pending signal s is not empty and
\* +OK when it is.
C13_BeatSignal ==
    [][\A w \in Wids :
        (IsBeatStep(w) /\ Registered(w)) =>
            /\ heartbeats' =
                  [heartbeats EXCEPT ![w].lastHeartbeat = now]
            /\ heartbeats'[w].signal = heartbeats[w].signal
            /\ IF heartbeats[w].signal = ""
               THEN out' = <<RespOk>>
               ELSE out' = <<RespBulk("{\"signal\":\""
                               \o heartbeats[w].signal \o "\"}")>>]_vars

\* C13 witness: w1, marked "quiet" a minute ago, beats: it is told so, is
\* still marked, and its last_heartbeat is now
C13_Witness ==
    /\ last.op = "command"
    /\ last.line = "BEAT {\"wid\":\"w1\"}"
    /\ out = <<RespBulk("{\"signal\":\"quiet\"}")>>
    /\ heartbeats["w1"].signal = "quiet"
    /\ heartbeats["w1"].lastHeartbeat = now
    /\ heartbeats["w1"].StartedAt = 0
    /\ now >= 60

\* the age of the registration of w, in seconds
Silence(w) == now - heartbeats[w].lastHeartbeat

\* C14: a run of the reaper removes the workers that have been silent for
\* more than 60 seconds and leaves every other registration as it is; and
\* no step at all removes a worker that was heard of in the last 60 seconds.
C14_ReaperRemovesStale ==
    [][/\ reapHeartbeats =>
            \A w \in Keys :
                /\ (Registered(w) /\ Silence(w) > 60) =>
                      heartbeats'[w] = NoWorker
                /\ ~(Registered(w) /\ Silence(w) > 60) =>
                      heartbeats'[w] = heartbeats[w]
       /\ \A w \in Keys :
            (Registered(w) /\ heartbeats'[w] = NoWorker) => Silence(w) > 60
      ]_vars

\* C14 witness: at 90, w1 was last heard of at 0 and has been reaped, while
\* w2, last heard of at 30, exactly 60 seconds ago, is still registered
C14_Witness ==
    /\ now = 90
    /\ client["c1"].Wid = "w1"
    /\ state["c1"] = "READY"
    /\ ~Registered("w1")
    /\ Registered("w2")
    /\ heartbeats["w2"].lastHeartbeat = 30

\* C20: an AHOY with a registered wid sets last_heartbeat of the entry to
\* now and leaves the rest of it (signal, started_at, hostname) and every
\* other entry alone; an AHOY with a new wid adds one entry, with an empty
\* signal, started and last heard of now.
C20_ReAhoyKeepsEntry ==
    [][(/\ last'.seq # last.seq
        /\ last'.op = "handshake"
        /\ handshake(last'.line, last'.readErr).res = "ok") =>
            LET cl == handshake(last'.line, last'.readErr).client
                w == cl.Wid
            IN  /\ \A v \in Keys \ {w} : heartbeats'[v] = heartbeats[v]
                /\ IF Registered(w)
                   THEN heartbeats'[w] =
                           [heartbeats[w] EXCEPT !.lastHeartbeat = now]
                   ELSE /\ heartbeats'[w].Wid = w
                        /\ heartbeats'[w].signal = ""
                        /\ heartbeats'[w].StartedAt = now
                        /\ heartbeats'[w].lastHeartbeat = now
                        /\ heartbeats'[w].Hostname = cl.Hostname]_vars

\* C20 witness: w1, registered at 0 and marked "quiet", has reconnected from
\* another host: its entry is the old one but for last_heartbeat
C20_Witness ==
    /\ last.op = "handshake"
    /\ last.sess = "c2"
    /\ state["c2"] = "READY"
    /\ client["c2"].Wid = "w1"
    /\ client["c2"].Hostname = "h2"
    /\ heartbeats["w1"].Hostname = ""
    /\ heartbeats["w1"].signal = "quiet"
    /\ heartbeats["w1"].StartedAt = 0
    /\ heartbeats["w1"].lastHeartbeat = now
    /\ now > 0

(***************************************************************************)
(* The password (C17), checked under SpecHandshake.                        *)
(***************************************************************************)
\* C17: every worker record the server keeps, the entries of the heartbeat
\* registry and the client records of the sessions, holds "<secret>" for
\* its password, whatever password the client sent.
C17_PasswordScrubbed ==
    /\ \A w \in Keys : Registered(w) => heartbeats[w].Password = "<secret>"
    /\ \A c \in Sessions :
          client[c] # NoClient => client[c].Password = "<secret>"

\* C17 witness: the server asks for a password, w1 has sent it and is READY
C17_Witness ==
    /\ Password = "p"
    /\ last.op = "handshake"
    /\ last.line = "AHOY {\"wid\":\"w1\",\"password\":\"p\"}\n"
    /\ state[last.sess] = "READY"
    /\ client[last.sess].Wid = "w1"
    /\ client[last.sess].Password = "<secret>"
    /\ Registered("w1")
    /\ heartbeats["w1"].Password = "<secret>"

(***************************************************************************)
(* Server.Start and Server.Stop, step by step: the accept loop, the        *)
(* goroutine it spawns for a connection, and the deferred calls that run   *)
(* when the loop returns, last deferred first.                             *)
(***************************************************************************)
\* pending: the WaitGroup counts the sessions between Add(1) and Done()
pending ==
    Cardinality({c \in Sessions : state[c] \in {"AWAIT_HANDSHAKE", "READY"}})

\* lines 105-109: Accept returns a connection, `go func()` is spawned
acceptConn(c) ==
    /\ ~crashed
    /\ main = "accepting"
    /\ listener = "open"
    /\ state[c] \in {"IDLE", "CLOSED"}
    /\ state' = [state EXCEPT ![c] = "SPAWNED"]
    /\ client' = [client EXCEPT ![c] = NoClient]
    /\ out' = <<>>
    /\ last' = Step(c, "accept", "", FALSE, FALSE, "none")
    /\ UNCHANGED <<Password, now, heartbeats, storeVars, Processed, Failures,
                   crashed, popped, runVars, inRegistry>>

\* lines 110-113: the goroutine runs: pending.Add(1), then processConnection
sessionStart(c) ==
    /\ ~crashed
    /\ state[c] = "SPAWNED"
    /\ state' = [state EXCEPT ![c] = "AWAIT_HANDSHAKE"]
    /\ UNCHANGED <<Password, now, client, heartbeats, storeVars, Processed,
                   Failures, crashed, out, last, popped, runVars, inRegistry>>

\* Stop, line 122: s.mu.Lock()
stopLock ==
    /\ ~crashed
    /\ listener = "open"
    /\ mu = "none"
    /\ mu' = "Stop"
    /\ UNCHANGED <<Password, now, state, client, heartbeats, storeVars,
                   Processed, Failures, crashed, out, last, popped, listener,
                   main, scheduler, storage, inRegistry>>

\* Stop, lines 123-126: s.listener.Close(); s.mu.Unlock()
stopClose ==
    /\ ~crashed
    /\ mu = "Stop"
    /\ listener' = "closed"
    /\ mu' = "none"
    /\ UNCHANGED <<Password, now, state, client, heartbeats, storeVars,
                   Processed, Failures, crashed, out, last, popped, main,
                   scheduler, storage, inRegistry>>

\* lines 105-108: Accept fails on the closed listener, Start returns nil and
\* its deferred calls begin with the one deferred last, s.pending.Wait()
acceptFails ==
    /\ ~crashed
    /\ main = "accepting"
    /\ listener = "closed"
    /\ main' = "waiting"
    /\ UNCHANGED <<Password, now, state, client, heartbeats, storeVars,
                   Processed, Failures, crashed, out, last, popped, listener,
                   scheduler, storage, mu, inRegistry>>

\* line 97: defer s.pending.Wait() returns when the counter is zero
waitDone ==
    /\ ~crashed
    /\ main = "waiting"
    /\ pending = 0
    /\ main' = "stoppingScheduler"
    /\ UNCHANGED <<Password, now, state, client, heartbeats, storeVars,
                   Processed, Failures, crashed, out, last, popped, listener,
                   scheduler, storage, mu, inRegistry>>

\* line 94: defer s.scheduler.Stop()
stopScheduler ==
    /\ ~crashed
    /\ main = "stoppingScheduler"
    /\ scheduler' = "stopped"
    /\ main' = "closingStore"
    /\ UNCHANGED <<Password, now, state, client, heartbeats, storeVars,
                   Processed, Failures, crashed, out, last, popped, listener,
                   storage, mu, inRegistry>>

\* line 77: defer store.Close(), and Start has returned
closeStore ==
    /\ ~crashed
    /\ main = "closingStore"
    /\ storage' = "closed"
    /\ main' = "returned"
    /\ UNCHANGED <<Password, now, state, client, heartbeats, storeVars,
                   Processed, Failures, crashed, out, last, popped, listener,
                   scheduler, mu, inRegistry>>

(***************************************************************************)
(* SpecShutdown: two connections come in, talk or stay silent, and Stop is *)
(* called at any moment.  SpecShutdownFair adds what the Go scheduler and  *)
(* the handshake deadline guarantee: a goroutine that can run does, and a  *)
(* handshake ends within its second.  A READY peer need never send.        *)
(***************************************************************************)
ShutdownCmds == {Cmd(b, "\n", "none") : b \in {"INFO", "END"}}

Handshakes ==
    \E c \in Sessions : \E i \in GoodAhoy(c) \cup {In("", TRUE, FALSE)} :
        processConnection(c, i.line, i.readErr, i.writeErr)

Spawns == \E c \in Sessions : sessionStart(c)

NextShutdown ==
    \/ \E c \in Sessions : acceptConn(c)
    \/ Spawns
    \/ Handshakes
    \/ \E c \in Sessions, i \in ShutdownCmds :
          processLines(c, i.raw, i.serr, i.rnd)
    \/ \E c \in Sessions : readFailed(c)
    \/ stopLock
    \/ stopClose
    \/ acceptFails
    \/ waitDone
    \/ stopScheduler
    \/ closeStore

SpecShutdown == InitOpen /\ [][NextShutdown]_vars

SpecShutdownFair ==
    /\ InitOpen
    /\ [][NextShutdown]_vars
    /\ WF_vars(Spawns)
    /\ WF_vars(Handshakes)
    /\ WF_vars(stopClose)
    /\ WF_vars(acceptFails)
    /\ WF_vars(waitDone)
    /\ WF_vars(stopScheduler)
    /\ WF_vars(closeStore)

(***************************************************************************)
(* Shutdown (C15, C16, C19).                                               *)
(***************************************************************************)
\* C15: shutdown goes in this order: the listener is closed, then the
\* scheduler is stopped, then the server waits for its sessions, then the
\* store is closed.  So the scheduler is stopped only with the listener
\* closed, the wait begins only with the scheduler stopped, and the store
\* is closed only with the wait over.
C15_ShutdownOrder ==
    /\ scheduler = "stopped" => listener = "closed"
    /\ main \in {"waiting", "stoppingScheduler", "closingStore", "returned"}
          => scheduler = "stopped"
    /\ storage = "closed" => main \in {"closingStore", "returned"}

Live(c) == state[c] \in {"SPAWNED", "AWAIT_HANDSHAKE", "READY"}

\* C16: once Stop has closed the listener, the READY sessions reach CLOSED,
\* the wait on the pending counter completes and Start returns.
C16_SessionsTerminate ==
    (listener = "closed") ~>
        (main = "returned" /\ \A c \in Sessions : state[c] # "READY")

\* C19: the scheduler is not stopped and the store is not closed while the
\* session of an accepted connection has still to run or is running.
C19_NoCloseWhileSessionLive ==
    (scheduler = "stopped" \/ storage = "closed") =>
        \A c \in Sessions : ~Live(c)

(***************************************************************************)
(* SpecRace: the heartbeat registry as the goroutines reach it.  A session *)
(* is in the registry from its map lookup (line 179 in the handshake, line *)
(* 396 in BEAT) to the end of its handler, the reaper from the start of    *)
(* its scan (line 417) to its last delete.  Server.mu is taken by Stop,    *)
(* and by nothing that touches the registry.                               *)
(***************************************************************************)
Goroutines == Sessions \cup {"reaper"}

\* lines 179, 396, 417: a goroutine begins to read s.heartbeats; no Lock
enterRegistry(g) ==
    /\ ~crashed
    /\ g \notin inRegistry
    /\ g \in Sessions => state[g] \in {"AWAIT_HANDSHAKE", "READY"}
    /\ inRegistry' = inRegistry \cup {g}
    /\ UNCHANGED <<Password, now, state, client, heartbeats, storeVars,
                   Processed, Failures, crashed, out, last, popped, runVars>>

RaceCmds ==
    {Cmd(b, "\n", "none") :
        b \in {"BEAT {\"wid\":\"w1\"}", "BEAT {\"wid\":\"w2\"}"}}

NextRace ==
    \/ \E d \in {31} : Idle(d)
    \/ \E c \in Sessions : Accept(c)
    \/ \E g \in Goroutines : enterRegistry(g)
    \/ \E c \in Sessions : \E i \in GoodAhoy(c) :
          processConnection(c, i.line, i.readErr, i.writeErr)
    \/ \E c \in Sessions, i \in RaceCmds :
          processLines(c, i.raw, i.serr, i.rnd)
    \/ reapHeartbeats
    \/ stopLock
    \/ stopClose

SpecRace == InitOpen /\ [][NextRace]_vars

\* C18: the goroutines take turns in the heartbeat registry, as they would
\* if each access were made holding Server.mu: no two of them (two
\* sessions in AHOY or BEAT, a session and the reaper) are reading or
\* writing it at the same time.
C18_NoTwoInRegistry == Cardinality(inRegistry) <= 1

====
